---- MODULE Spec2Model ----
(***************************************************************************)
(* Model of flyctl's command-execution backbone:                           *)
(*   - internal/cli/internal/command/command.go: the dispatcher newRunE,   *)
(*     the preparer chain prepare, the common preparers, RequireSession,   *)
(*     RequireOrg and selectOrg;                                           *)
(*   - cmd: the legacy helper selectOrganization and the move command.     *)
(* One invocation of the CLI is one behaviour: Init chooses the command    *)
(* that is invoked and its inputs, the actions are the steps of that       *)
(* invocation, split where the code calls a collaborator that may fail or  *)
(* block (operating system, config file, remote API, interactive prompt).  *)
(***************************************************************************)
EXTENDS Integers, Sequences, FiniteSets, TLC

\* ------------------------------------------------------------------ bounds
\* largest organization list the remote collaborator returns in the
\* invocation specifications
MaxOrgs == 3
\* largest organization list handed to the sort in the sort specification
MaxSortLen == 7

\* ------------------------------------------------------- program constants
\* sort.Slice (Go <= 1.18, quickSort_func): slices of at most 12 elements get
\* one ShellSort pass with this gap, then insertion sort
ShellGap == 6

\* ------------------------------------------------------------ organizations
PERSONAL == "PERSONAL"
SHARED == "SHARED"
OrganizationType == {PERSONAL, SHARED}

\* slug and name of the organization the remote collaborator lists at
\* position i (slugs are unique)
SlugOf == <<"o1", "o2", "o3", "o4", "o5", "o6", "o7", "o8", "o9">>
NameOf == <<"Org 1", "Org 2", "Org 3", "Org 4", "Org 5", "Org 6", "Org 7", "Org 8", "Org 9">>

\* api.Organization
Organization(i, t) == [ID |-> i, Name |-> NameOf[i], Slug |-> SlugOf[i], Type |-> t]

\* the nil *api.Organization
NoOrg == [ID |-> 0, Name |-> "", Slug |-> "", Type |-> ""]

\* the organization lists GetOrganizations can return, up to n entries
OrgLists(n) ==
  UNION { { [i \in 1..k |-> Organization(i, ts[i])] : ts \in [1..k -> OrganizationType] } : k \in 0..n }

\* ------------------------------------------------------------------- errors
Error(kind, arg) == [kind |-> kind, arg |-> arg]
NoErr == Error("nil", "")
ErrGetwd == Error("error determining working directory", "")
ErrUserHomeDir == Error("error determining user home directory", "")
ErrConfigParse == Error("config parse error", "")
ErrNoAuthToken == Error("ErrNoAuthToken", "")
ErrGetOrganizations == Error("GetOrganizations failed", "")
ErrOrgNotFound(slug) == Error("Organization not found", slug)
\* terminal.InterruptErr: the user cancelled the prompt
InterruptErr == Error("interrupt", "")
\* any other failure of the prompt mechanism
ErrPrompt == Error("prompt failed", "")
ErrBody == Error("command body failed", "")

\* ---------------------------------------------------------------- sort.Slice
\* the less function with the comparison turned around
TypeLessReversed(a, b) == a.Type = SHARED /\ b.Type = PERSONAL

\* the less function of both sort.Slice calls: orgs[i].Type < orgs[j].Type
\* (Go compares the type strings bytewise: "PERSONAL" < "SHARED")
TypeLess(a, b) == a.Type = PERSONAL /\ b.Type = SHARED

Swap(s, i, j) == [s EXCEPT ![i] = s[j], ![j] = s[i]]

\* inner loop of insertionSort_func: for j := i; j > a && less(j, j-1); j--
RECURSIVE InsertionInner(_, _)
InsertionInner(s, j) ==
  IF j > 1 /\ TypeLess(s[j], s[j - 1])
  THEN InsertionInner(Swap(s, j, j - 1), j - 1)
  ELSE s

\* outer loop of insertionSort_func: for i := a + 1; i < b; i++
RECURSIVE InsertionOuter(_, _)
InsertionOuter(s, i) ==
  IF i <= Len(s) THEN InsertionOuter(InsertionInner(s, i), i + 1) ELSE s

insertionSort(s) == InsertionOuter(s, 2)

\* the ShellSort pass of quickSort_func: for i := a + 6; i < b; i++
RECURSIVE ShellPass(_, _)
ShellPass(s, i) ==
  IF i <= Len(s)
  THEN ShellPass(IF TypeLess(s[i], s[i - ShellGap]) THEN Swap(s, i, i - ShellGap) ELSE s, i + 1)
  ELSE s

\* the results sort.Slice can give for a slice of at most 12 elements: sort.Slice is documented as not stable, and which element order
\* it produces depends on the toolchain: shell pass plus insertion sort
\* (Go <= 1.18) or insertion sort alone (Go >= 1.19)
SortSlice(s) ==
  IF Len(s) <= 1 THEN {s}
  ELSE {insertionSort(ShellPass(s, ShellGap + 1)), insertionSort(s)}

\* ------------------------------------------------------------ configuration
\* the options of config.Config the pipeline reads
Options == {"APIBaseURL", "AccessToken", "Organization"}

\* a source that does not set an option
Unset == "<unset>"

\* config.New(): the built-in defaults
DefaultConfig ==
  [o \in Options |-> IF o = "APIBaseURL" THEN "https://api.fly.io" ELSE ""]

\* a source (environment, file, flags) gives each option a value or leaves
\* it unset; applying a source overwrites exactly the options it sets
ApplySource(cfg, src) == [o \in Options |-> IF src[o] # Unset THEN src[o] ELSE cfg[o]]

\* cfg.ApplyEnv()
ApplyEnv(cfg, env) == ApplySource(cfg, env)
\* cfg.ApplyFile(path), for a file that exists and parses
ApplyFile(cfg, file) == ApplySource(cfg, file)
\* cfg.ApplyFlags(fs): only flags the invoker set explicitly are applied
ApplyFlags(cfg, flags) == ApplySource(cfg, flags)

\* a source that sets nothing
NoSource == [o \in Options |-> Unset]

\* the outcomes of reading the config file
FileStatus == {"ok", "missing", "malformed"}

\* the zero value of the configuration slot of a context
ZeroConfig == [o \in Options |-> ""]

\* loadConfig applying the file before the environment
loadConfigResultFileFirst(in) ==
  LET cfg0 == DefaultConfig
      cfg1 == IF in.fileStatus = "ok" THEN ApplyFile(cfg0, in.file) ELSE cfg0
      cfg2 == ApplyEnv(cfg1, in.env)
      cfg3 == ApplyFlags(cfg2, in.flags)
  IN IF in.fileStatus = "malformed"
     THEN [cfg |-> ZeroConfig, err |-> ErrConfigParse]
     ELSE [cfg |-> cfg3, err |-> NoErr]

\* loadConfig returning every error of ApplyFile, fs.ErrNotExist included
loadConfigResultStrict(in) ==
  LET cfg0 == DefaultConfig
      cfg1 == ApplyEnv(cfg0, in.env)
      cfg2 == IF in.fileStatus = "ok" THEN ApplyFile(cfg1, in.file) ELSE cfg1
      cfg3 == ApplyFlags(cfg2, in.flags)
  IN IF in.fileStatus # "ok"
     THEN [cfg |-> ZeroConfig, err |-> ErrConfigParse]
     ELSE [cfg |-> cfg3, err |-> NoErr]

\* the body of loadConfig up to its return: the configuration it builds and
\* the error it returns (ZeroConfig when it returns nil, err)
loadConfigResult(in) ==
  LET cfg0 == DefaultConfig
      cfg1 == ApplyEnv(cfg0, in.env)
      cfg2 == IF in.fileStatus = "ok" THEN ApplyFile(cfg1, in.file) ELSE cfg1
      cfg3 == ApplyFlags(cfg2, in.flags)
  IN IF in.fileStatus = "malformed"
     THEN [cfg |-> ZeroConfig, err |-> ErrConfigParse]
     ELSE [cfg |-> cfg3, err |-> NoErr]

\* ------------------------------------------------------------------ context
Facts == {"WorkingDirectory", "UserHomeDirectory", "ConfigDirectory", "ConfigFile",
          "Config", "Client", "Org"}

\* the context of an invocation: the facts set so far and their values.
\* nil is the nil context a failing preparer returns.
EmptyCtx ==
  [nil |-> FALSE, has |-> {}, wd |-> "", home |-> "", configDir |-> "",
   configFile |-> "", cfg |-> ZeroConfig, token |-> "", org |-> NoOrg]
NilCtx == [EmptyCtx EXCEPT !.nil = TRUE]

\* state.WithWorkingDirectory and the other With... / NewContext functions
WithWorkingDirectory(c, wd) == [c EXCEPT !.has = @ \cup {"WorkingDirectory"}, !.wd = wd]
WithUserHomeDirectory(c, d) == [c EXCEPT !.has = @ \cup {"UserHomeDirectory"}, !.home = d]
WithConfigDirectory(c, d) == [c EXCEPT !.has = @ \cup {"ConfigDirectory"}, !.configDir = d]
WithConfigFile(c, f) == [c EXCEPT !.has = @ \cup {"ConfigFile"}, !.configFile = f]
WithConfig(c, cfg) == [c EXCEPT !.has = @ \cup {"Config"}, !.cfg = cfg]
WithClient(c, token) == [c EXCEPT !.has = @ \cup {"Client"}, !.token = token]
WithOrg(c, org) == [c EXCEPT !.has = @ \cup {"Org"}, !.org = org]

\* filepath.Join(dir, name)
Join(dir, name) == dir \o "/" \o name

\* client.Authenticated(): the client holds an access token
Authenticated(c) == c.token # ""

\* -------------------------------------------------------------------- state
VARIABLES
  cmd,        \* the command invoked: "new" (built by command.New), "move", "sort"
  fn,         \* newRunE: whether the command has a body (fn != nil)
  preparers,  \* newRunE: the command-specific preparers
  in,         \* what loadConfig finds: environment, file, flags, file status
  stage,      \* newRunE: "idle", "common", "specific", "body", "done"
  idx,        \* prepare: position in the chain being run
  ctx,        \* the context handed from preparer to preparer
  err,        \* the error of the invocation so far (NoErr: nil)
  calls,      \* history: the preparers invoked, in order, with what each returned
  bodyRuns,   \* history: how often the body was run
  apiBaseURL, \* the process-wide base URL set by api.SetBaseURL
  notice,     \* whether the update advisory was printed
  updateCheck, \* history: the outcome of the release check ("none": not run)
  rpc,        \* position in RequireOrg / selectOrganization: "idle", "fetching", "prompting"
  fetched,    \* the organization list as GetOrganizations returned it
  orgs,       \* the organization list after sort.Slice
  fetchCalls, \* history: calls of GetOrganizations
  selCalls,   \* history: invocations of the interactive selector
  selOptions, \* the labels handed to the selector
  selErr,     \* history: the error the selector answered with (NoErr: none)
  selIndex,   \* history: the index the selector answered with (0: none)
  lpc,        \* position in the legacy command (runMove, runLaunch)
  args,       \* legacy command: its flags
  selOrg,     \* legacy command: the organization selectOrganization returned
  moveCalls,  \* history: the organization ids passed to MoveApp
  launch,     \* runLaunch: its locals eagerBuilderOrg, importedConfig, srcInfo
  builders,   \* the background tasks started with go EagerlyEnsureRemoteBuilder
  createCalls, \* history: the organization ids passed to CreateApp
  confirm,    \* the answer to the confirmation of runMove or runDomainsRegister
  checkResult, \* runDomainsRegister: what CheckDomain answered
  registerCalls \* history: the organization ids passed to CreateAndRegisterDomain

vars == <<cmd, fn, preparers, in, stage, idx, ctx, err, calls, bodyRuns, apiBaseURL,
          notice, updateCheck, rpc, fetched, orgs, fetchCalls, selCalls, selOptions,
          selErr, selIndex, lpc,
          args,
          selOrg, moveCalls, launch, builders, createCalls, confirm, checkResult,
          registerCalls>>

pipelineVars_noErr == <<stage, idx, ctx, calls, bodyRuns, apiBaseURL, notice, updateCheck>>
pipelineVars == <<stage, idx, ctx, err, calls, bodyRuns, apiBaseURL, notice, updateCheck>>
orgVars == <<rpc, fetched, orgs, fetchCalls, selCalls, selOptions, selErr, selIndex>>
launchVars == <<launch, builders, createCalls>>
domainVars == <<checkResult, registerCalls>>
legacyVars == <<lpc, args, selOrg, moveCalls, launch, builders, createCalls, confirm,
                checkResult, registerCalls>>
inputVars == <<cmd, fn, preparers, in>>

\* --------------------------------------------------------------- dispatcher
\* the common chain with the config directory determined before the home
\* directory
commonPreparersSwapped ==
  <<"determineWorkingDir", "determineConfigDir", "determineUserHomeDir",
    "determineConfigFile", "loadConfig", "initClient", "promptToUpdate">>

commonPreparers ==
  <<"determineWorkingDir", "determineUserHomeDir", "determineConfigDir",
    "determineConfigFile", "loadConfig", "initClient", "promptToUpdate">>

\* the chain prepare is running and the preparer it is about to call
Chain == IF stage = "common" THEN commonPreparers ELSE preparers
Current ==
  IF stage \in {"common", "specific"} /\ idx \in 1..Len(Chain) THEN Chain[idx] ELSE "none"

\* a preparer that has been called and has not returned yet
Pending == Error("pending", "")

\* prepare without its break: the loop goes on after an error
prepareContinuesNoBreak(chain, i, e) == i < Len(chain)

\* prepare: the loop goes on to the next preparer unless p returned an error
\* or p was the last one
prepareContinues(chain, i, e) == e = NoErr /\ i < Len(chain)

\* newRunE running the body whatever the command-specific chain returned
newRunENextAlwaysBody(st, e, specific) ==
  IF st = "common"
  THEN IF e # NoErr THEN "done"
       ELSE IF specific = <<>> THEN "body" ELSE "specific"
  ELSE "body"

\* newRunE without the return after a failed common chain
newRunENextNoReturn(st, e, specific) ==
  IF st = "common"
  THEN IF specific = <<>> THEN (IF e = NoErr THEN "body" ELSE "done") ELSE "specific"
  ELSE IF e = NoErr THEN "body" ELSE "done"

\* newRunE: where the invocation goes when prepare has returned e for the
\* chain of stage st: an error of the common chain returns at once; the
\* command-specific chain is run next (an empty one returns nil at once);
\* the body runs if that chain returned nil
newRunENext(st, e, specific) ==
  IF st = "common"
  THEN IF e # NoErr THEN "done"
       ELSE IF specific = <<>> THEN "body" ELSE "specific"
  ELSE IF e = NoErr THEN "body" ELSE "done"

\* ctx, err = p(ctx) in prepare, and what follows it
Returned(p, res) ==
  /\ ctx' = res.ctx
  /\ err' = res.err
  /\ calls' = IF calls # <<>> /\ calls[Len(calls)] = [p |-> p, err |-> Pending]
              THEN [calls EXCEPT ![Len(calls)].err = res.err]
              ELSE Append(calls, [p |-> p, err |-> res.err])
  /\ IF prepareContinues(Chain, idx, res.err)
     THEN stage' = stage /\ idx' = idx + 1
     ELSE stage' = newRunENext(stage, res.err, preparers) /\ idx' = 1

Ok(c) == [ctx |-> c, err |-> NoErr]
Fail(e) == [ctx |-> NilCtx, err |-> e]

\* newRunE giving a command without a body a closure all the same
hasRunEAlways(f) == TRUE

\* newRunE returns nil, no closure, when fn == nil
hasRunE(f) == f

\* the closure newRunE returns: a fresh context seeded with the flags, then
\* the common chain. A command without a body has no RunE and is never
\* dispatched.
RunE ==
  /\ cmd = "new" /\ stage = "idle" /\ hasRunE(fn)
  /\ stage' = "common" /\ idx' = 1
  /\ ctx' = EmptyCtx
  /\ UNCHANGED <<err, calls, bodyRuns, apiBaseURL, notice, updateCheck>>
  /\ UNCHANGED <<inputVars, orgVars, legacyVars>>

\* err = fn(ctx)
Body ==
  /\ stage = "body"
  /\ \E e \in {NoErr, ErrBody} : err' = e
  /\ bodyRuns' = bodyRuns + 1
  /\ stage' = "done"
  /\ UNCHANGED <<idx, ctx, calls, apiBaseURL, notice, updateCheck>>
  /\ UNCHANGED <<inputVars, orgVars, legacyVars>>

\* -------------------------------------------------------- common preparers
determineWorkingDir ==
  /\ Current = "determineWorkingDir"
  /\ \E ok \in BOOLEAN :
       Returned("determineWorkingDir",
                IF ok THEN Ok(WithWorkingDirectory(ctx, "/work")) ELSE Fail(ErrGetwd))
  /\ UNCHANGED <<bodyRuns, apiBaseURL, notice, updateCheck>>
  /\ UNCHANGED <<inputVars, orgVars, legacyVars>>

determineUserHomeDir ==
  /\ Current = "determineUserHomeDir"
  /\ \E ok \in BOOLEAN :
       Returned("determineUserHomeDir",
                IF ok THEN Ok(WithUserHomeDirectory(ctx, "/home/u")) ELSE Fail(ErrUserHomeDir))
  /\ UNCHANGED <<bodyRuns, apiBaseURL, notice, updateCheck>>
  /\ UNCHANGED <<inputVars, orgVars, legacyVars>>

determineConfigDir ==
  /\ Current = "determineConfigDir"
  /\ Returned("determineConfigDir", Ok(WithConfigDirectory(ctx, Join(ctx.home, ".fly"))))
  /\ UNCHANGED <<bodyRuns, apiBaseURL, notice, updateCheck>>
  /\ UNCHANGED <<inputVars, orgVars, legacyVars>>

\* determineConfigFile storing the path in a fresh context instead of the
\* one it was given
determineConfigFileFresh ==
  /\ Current = "determineConfigFile"
  /\ Returned("determineConfigFile", Ok(WithConfigFile(EmptyCtx, Join(ctx.configDir, "config.yml"))))
  /\ UNCHANGED <<bodyRuns, apiBaseURL, notice, updateCheck>>
  /\ UNCHANGED <<inputVars, orgVars, legacyVars>>

determineConfigFile ==
  /\ Current = "determineConfigFile"
  /\ Returned("determineConfigFile", Ok(WithConfigFile(ctx, Join(ctx.configDir, "config.yml"))))
  /\ UNCHANGED <<bodyRuns, apiBaseURL, notice, updateCheck>>
  /\ UNCHANGED <<inputVars, orgVars, legacyVars>>

loadConfig ==
  /\ Current = "loadConfig"
  /\ LET r == loadConfigResult(in)
     IN Returned("loadConfig", IF r.err = NoErr THEN Ok(WithConfig(ctx, r.cfg)) ELSE Fail(r.err))
  /\ UNCHANGED <<bodyRuns, apiBaseURL, notice, updateCheck>>
  /\ UNCHANGED <<inputVars, orgVars, legacyVars>>

initClient ==
  /\ Current = "initClient"
  /\ apiBaseURL' = ctx.cfg["APIBaseURL"]
  /\ Returned("initClient", Ok(WithClient(ctx, ctx.cfg["AccessToken"])))
  /\ UNCHANGED <<bodyRuns, notice, updateCheck>>
  /\ UNCHANGED <<inputVars, orgVars, legacyVars>>

ErrUpdateCheck == Error("release check failed", "")

\* promptToUpdate returning the failure of the release check
promptToUpdateResultStrict(c, check) ==
  IF check = "failed" THEN Fail(ErrUpdateCheck) ELSE Ok(c)

\* what promptToUpdate returns: ctx, nil whatever update.PromptFor did
promptToUpdateResult(c, check) == Ok(c)

\* update.PromptFor prints an advisory when the release check finds a newer
\* release; its outcome is not looked at
promptToUpdate ==
  /\ Current = "promptToUpdate"
  /\ \E check \in {"newer", "current", "failed"} :
       /\ updateCheck' = check
       /\ notice' = IF check = "newer" THEN "advisory" ELSE notice
       /\ Returned("promptToUpdate", promptToUpdateResult(ctx, check))
  /\ UNCHANGED <<bodyRuns, apiBaseURL>>
  /\ UNCHANGED <<inputVars, orgVars, legacyVars>>

\* ------------------------------------------------------ session/org resolver
\* RequireSession with its test turned around
RequireSessionResultInverted(c) == IF ~Authenticated(c) THEN Ok(c) ELSE Fail(ErrNoAuthToken)

\* RequireSession letting every client through
RequireSessionResultAlwaysOk(c) == Ok(c)

RequireSessionResult(c) == IF Authenticated(c) THEN Ok(c) ELSE Fail(ErrNoAuthToken)

RequireSession ==
  /\ Current = "RequireSession"
  /\ Returned("RequireSession", RequireSessionResult(ctx))
  /\ UNCHANGED <<bodyRuns, apiBaseURL, notice, updateCheck>>
  /\ UNCHANGED <<inputVars, orgVars, legacyVars>>

\* fmt.Sprintf("%s (%s)", org.Name, org.Slug) for every organization
Labels(os) == [i \in 1..Len(os) |-> os[i].Name \o " (" \o os[i].Slug \o ")"]

\* what survey.AskOne can answer for a Select with n options: an index among
\* the options, the interrupt of a user who cancels, or another failure
\* (the only answers when there is nothing to select from)
SelectReplies(n) ==
  { [err |-> e, index |-> 0] : e \in {InterruptErr, ErrPrompt} }
    \cup { [err |-> NoErr, index |-> i] : i \in 1..n }

\* for _, org := range orgs { if slug == org.Slug { return ... } }
FirstWithSlug(os, slug) ==
  CHOOSE i \in 1..Len(os) : os[i].Slug = slug /\ \A j \in 1..(i - 1) : os[j].Slug # slug

\* the switch of RequireOrg taking a slug override at its word: when no
\* fetched organization has the slug, one is made up from it
RequireOrgSwitchTrustSlug(slug, os) ==
  IF slug = "" /\ Len(os) = 1 /\ os[1].Type = PERSONAL
  THEN [kind |-> "auto", org |-> os[1]]
  ELSE IF slug # ""
  THEN IF \E i \in 1..Len(os) : os[i].Slug = slug
       THEN [kind |-> "slug", org |-> os[FirstWithSlug(os, slug)]]
       ELSE [kind |-> "slug", org |-> [ID |-> 0, Name |-> slug, Slug |-> slug, Type |-> SHARED]]
  ELSE [kind |-> "prompt", org |-> NoOrg]

\* the switch of RequireOrg with the auto-selection tried whatever the slug
RequireOrgSwitchAutoFirst(slug, os) ==
  IF Len(os) = 1 /\ os[1].Type = PERSONAL
  THEN [kind |-> "auto", org |-> os[1]]
  ELSE IF slug # ""
  THEN IF \E i \in 1..Len(os) : os[i].Slug = slug
       THEN [kind |-> "slug", org |-> os[FirstWithSlug(os, slug)]]
       ELSE [kind |-> "notfound", org |-> NoOrg]
  ELSE [kind |-> "prompt", org |-> NoOrg]

\* the switch of RequireOrg without the auto-selection
RequireOrgSwitchNoAuto(slug, os) ==
  IF slug # ""
  THEN IF \E i \in 1..Len(os) : os[i].Slug = slug
       THEN [kind |-> "slug", org |-> os[FirstWithSlug(os, slug)]]
       ELSE [kind |-> "notfound", org |-> NoOrg]
  ELSE [kind |-> "prompt", org |-> NoOrg]

\* the switch of RequireOrg auto-selecting a personal first entry of a list
\* of any length
RequireOrgSwitchAnyLen(slug, os) ==
  IF slug = "" /\ Len(os) >= 1 /\ os[1].Type = PERSONAL
  THEN [kind |-> "auto", org |-> os[1]]
  ELSE IF slug # ""
  THEN IF \E i \in 1..Len(os) : os[i].Slug = slug
       THEN [kind |-> "slug", org |-> os[FirstWithSlug(os, slug)]]
       ELSE [kind |-> "notfound", org |-> NoOrg]
  ELSE [kind |-> "prompt", org |-> NoOrg]

\* the switch of RequireOrg over the sorted list
RequireOrgSwitch(slug, os) ==
  IF slug = "" /\ Len(os) = 1 /\ os[1].Type = PERSONAL
  THEN [kind |-> "auto", org |-> os[1]]
  ELSE IF slug # ""
  THEN IF \E i \in 1..Len(os) : os[i].Slug = slug
       THEN [kind |-> "slug", org |-> os[FirstWithSlug(os, slug)]]
       ELSE [kind |-> "notfound", org |-> NoOrg]
  ELSE [kind |-> "prompt", org |-> NoOrg]

\* selectOrg returning the first organization whatever the answer
selectOrgResultFirst(os, reply) ==
  IF reply.err # NoErr THEN [org |-> NoOrg, err |-> reply.err]
  ELSE [org |-> os[1], err |-> NoErr]

\* selectOrg after survey.AskOne has answered
selectOrgResult(os, reply) ==
  IF reply.err # NoErr THEN [org |-> NoOrg, err |-> reply.err]
  ELSE [org |-> os[reply.index], err |-> NoErr]

\* RequireOrg up to the call of GetOrganizations: the embedded RequireSession
RequireOrgSession ==
  /\ Current = "RequireOrg" /\ rpc = "idle"
  /\ LET r == RequireSessionResult(ctx)
     IN IF r.err # NoErr
        THEN /\ Returned("RequireOrg", Fail(r.err))
             /\ UNCHANGED orgVars
        ELSE /\ rpc' = "fetching"
             /\ fetchCalls' = fetchCalls + 1
             /\ calls' = Append(calls, [p |-> "RequireOrg", err |-> Pending])
             /\ UNCHANGED <<stage, idx, ctx, err, fetched, orgs, selCalls, selOptions, selErr, selIndex>>
  /\ UNCHANGED <<bodyRuns, apiBaseURL, notice, updateCheck>>
  /\ UNCHANGED <<inputVars, legacyVars>>

\* RequireOrg calling GetOrganizations again after an error
RequireOrgFetchErrorRetry ==
  /\ fetchCalls < 3
  /\ rpc' = "fetching"
  /\ fetchCalls' = fetchCalls + 1
  /\ UNCHANGED <<stage, idx, ctx, err, calls, fetched, orgs, selCalls, selOptions, selErr, selIndex>>

\* RequireOrg when GetOrganizations answers with an error: return nil, err
RequireOrgFetchError ==
  /\ Returned("RequireOrg", Fail(ErrGetOrganizations))
  /\ rpc' = "idle"
  /\ UNCHANGED <<fetched, orgs, fetchCalls, selCalls, selOptions, selErr, selIndex>>

\* RequireOrg from the answer of GetOrganizations to its return or to the
\* prompt of selectOrg
RequireOrgFetched ==
  /\ Current = "RequireOrg" /\ rpc = "fetching"
  /\ \/ RequireOrgFetchError
     \/ \E list \in OrgLists(MaxOrgs) : \E sorted \in SortSlice(list) :
          LET d == RequireOrgSwitch(ctx.cfg["Organization"], sorted)
          IN /\ fetched' = list
             /\ orgs' = sorted
             /\ IF d.kind = "prompt"
                THEN /\ rpc' = "prompting"
                     /\ selOptions' = Labels(sorted)
                     /\ selCalls' = selCalls + 1
                     /\ UNCHANGED <<stage, idx, ctx, err, calls, fetchCalls, selErr, selIndex>>
                ELSE /\ Returned("RequireOrg",
                                 IF d.kind = "notfound"
                                 THEN Fail(ErrOrgNotFound(ctx.cfg["Organization"]))
                                 ELSE Ok(WithOrg(ctx, d.org)))
                     /\ rpc' = "idle"
                     /\ UNCHANGED <<fetchCalls, selCalls, selOptions, selErr, selIndex>>
  /\ UNCHANGED <<bodyRuns, apiBaseURL, notice, updateCheck>>
  /\ UNCHANGED <<inputVars, legacyVars>>

\* RequireOrg from the answer of the prompt to its return
RequireOrgSelected ==
  /\ Current = "RequireOrg" /\ rpc = "prompting"
  /\ \E reply \in SelectReplies(Len(selOptions)) :
       LET r == selectOrgResult(orgs, reply)
       IN /\ selErr' = reply.err
          /\ selIndex' = reply.index
          /\ Returned("RequireOrg", IF r.err # NoErr THEN Fail(r.err) ELSE Ok(WithOrg(ctx, r.org)))
  /\ rpc' = "idle"
  /\ UNCHANGED <<fetched, orgs, fetchCalls, selCalls, selOptions>>
  /\ UNCHANGED <<bodyRuns, apiBaseURL, notice, updateCheck>>
  /\ UNCHANGED <<inputVars, legacyVars>>

\* ------------------------------------------------- legacy selectOrganization
\* isInterrupt(err): the error is the interrupt of a cancelled prompt
isInterrupt(e) == e = InterruptErr

\* the switch of runMove going on after a failed selection
runMoveSwitchIgnoreErr(o, e) ==
  IF isInterrupt(e) THEN "return nil" ELSE "go on"

\* the switch of runMove without its interrupt case
runMoveSwitchNoInterrupt(o, e) ==
  IF e # NoErr \/ o = NoOrg THEN "return error" ELSE "go on"

\* the switch of runMove over what selectOrganization returned
runMoveSwitch(o, e) ==
  IF isInterrupt(e) THEN "return nil"
  ELSE IF e # NoErr \/ o = NoOrg THEN "return error"
  ELSE "go on"

\* selectOrganization returns (o, e) to runMove: the switch of runMove and,
\* with --yes, the call of MoveApp
runMoveSelected(o, e) ==
  /\ UNCHANGED launchVars
  /\ IF runMoveSwitch(o, e) = "return nil"
     THEN /\ err' = NoErr /\ lpc' = "done"
          /\ UNCHANGED <<selOrg, moveCalls, confirm, domainVars>>
     ELSE IF runMoveSwitch(o, e) = "return error"
     THEN /\ err' = Error("Error setting organization", e.kind) /\ lpc' = "done"
          /\ UNCHANGED <<selOrg, moveCalls, confirm, domainVars>>
     ELSE /\ selOrg' = o
          /\ err' = NoErr
          /\ UNCHANGED <<confirm, domainVars>>
          /\ IF args.yes
             THEN lpc' = "MoveApp" /\ moveCalls' = Append(moveCalls, o.ID)
             ELSE lpc' = "confirm" /\ UNCHANGED moveCalls

\* ------------------------------------------------------------- runLaunch
\* the locals of runLaunch before it has set them
NoLaunch == [eagerBuilderOrg |-> "", importedConfig |-> FALSE, srcInfo |-> "nil"]

\* the builder is ensured by a plain call: it has ended when the call returns
GoAwaited(bs, org) == Append(bs, [org |-> org, state |-> "ok"])

\* go imgsrc.EagerlyEnsureRemoteBuilder(client, org): the task is started and
\* not waited for
Go(bs, org) == Append(bs, [org |-> org, state |-> "running"])

\* runLaunch returns e
runLaunchReturn(e) == err' = e /\ lpc' = "done"

\* runLaunch from its start to the first call it waits for: the builder task
\* for --org (or "personal") is started, then an existing fly.toml is loaded
runLaunchStart ==
  /\ cmd = "launch" /\ lpc = "start"
  /\ launch' = [launch EXCEPT !.eagerBuilderOrg = IF args.org = "" THEN "personal" ELSE args.org]
  /\ builders' = Go(builders, IF args.org = "" THEN "personal" ELSE args.org)
  /\ \E toml \in {"none", "load error", "named", "unnamed"} :
       CASE toml = "none" -> lpc' = "Scan" /\ UNCHANGED err
         [] toml = "load error" -> runLaunchReturn(Error("LoadAppConfig failed", ""))
         [] toml = "named" -> lpc' = "GetAppStatus" /\ UNCHANGED err
         [] toml = "unnamed" -> lpc' = "confirm copy" /\ UNCHANGED err
  /\ UNCHANGED <<args, selOrg, moveCalls, confirm, domainVars, createCalls>>
  /\ UNCHANGED <<inputVars, pipelineVars_noErr, orgVars>>

\* shouldDeployExistingApp from the answer of GetAppStatus, and the branch of
\* runLaunch on its result
runLaunchAppStatus ==
  /\ cmd = "launch" /\ lpc = "GetAppStatus"
  /\ \E status \in {"not found", "error", "not deployed", "healthy", "unhealthy"} :
       CASE status = "error" -> runLaunchReturn(Error("GetAppStatus failed", ""))
         [] status \in {"not deployed", "unhealthy"} -> lpc' = "runDeploy" /\ UNCHANGED err
         [] OTHER -> lpc' = "confirm copy" /\ UNCHANGED err
  /\ UNCHANGED <<args, selOrg, moveCalls, confirm, domainVars, launchVars>>
  /\ UNCHANGED <<inputVars, pipelineVars_noErr, orgVars>>

\* runLaunch from the answer to "copy its configuration to the new app?"
runLaunchConfirmCopy ==
  /\ cmd = "launch" /\ lpc = "confirm copy"
  /\ \E yes \in BOOLEAN : launch' = [launch EXCEPT !.importedConfig = yes]
  /\ lpc' = "Scan"
  /\ UNCHANGED <<err, args, selOrg, moveCalls, confirm, domainVars, builders, createCalls>>
  /\ UNCHANGED <<inputVars, pipelineVars_noErr, orgVars>>

\* runLaunch from the image flag or the source scan to the call of
\* GetOrganizations in selectOrganization
runLaunchScan ==
  /\ cmd = "launch" /\ lpc = "Scan"
  /\ IF args.image
     THEN /\ lpc' = "selectOrganization" /\ rpc' = "fetching" /\ fetchCalls' = fetchCalls + 1
          /\ UNCHANGED <<err, launch>>
     ELSE \E scan \in {"error", "nil", "no secrets", "secrets"} :
            IF scan = "error"
            THEN /\ runLaunchReturn(Error("Scan failed", ""))
                 /\ UNCHANGED <<launch, rpc, fetchCalls>>
            ELSE /\ launch' = [launch EXCEPT !.srcInfo = scan]
                 /\ lpc' = "selectOrganization" /\ rpc' = "fetching"
                 /\ fetchCalls' = fetchCalls + 1
                 /\ UNCHANGED err
  /\ UNCHANGED <<fetched, orgs, selCalls, selOptions, selErr, selIndex>>
  /\ UNCHANGED <<args, selOrg, moveCalls, confirm, domainVars, builders, createCalls>>
  /\ UNCHANGED <<inputVars, pipelineVars_noErr>>

\* selectOrganization returns (o, e) to runLaunch: every error is returned;
\* otherwise a second builder task is started if the organization is not the
\* one the first was started for, and selectRegion is called
runLaunchSelected(o, e) ==
  /\ UNCHANGED <<moveCalls, confirm, domainVars, launch, createCalls>>
  /\ IF e # NoErr
     THEN /\ runLaunchReturn(e)
          /\ UNCHANGED <<selOrg, builders>>
     ELSE /\ selOrg' = o
          /\ builders' = IF o.Slug # launch.eagerBuilderOrg THEN Go(builders, o.Slug) ELSE builders
          /\ lpc' = "selectRegion"
          /\ UNCHANGED err

\* runLaunch from the answer of selectRegion to the call of CreateApp
runLaunchRegion ==
  /\ cmd = "launch" /\ lpc = "selectRegion"
  /\ \/ /\ runLaunchReturn(Error("selectRegion failed", ""))
        /\ UNCHANGED createCalls
     \/ /\ lpc' = "CreateApp"
        /\ createCalls' = Append(createCalls, selOrg.ID)
        /\ UNCHANGED err
  /\ UNCHANGED <<args, selOrg, moveCalls, confirm, domainVars, launch, builders>>
  /\ UNCHANGED <<inputVars, pipelineVars_noErr, orgVars>>

\* runLaunch from the answer of CreateApp
runLaunchCreated ==
  /\ cmd = "launch" /\ lpc = "CreateApp"
  /\ \/ runLaunchReturn(Error("CreateApp failed", ""))
     \/ /\ lpc' = IF launch.srcInfo = "secrets" THEN "secrets" ELSE "writeAppConfig"
        /\ UNCHANGED err
  /\ UNCHANGED <<args, selOrg, moveCalls, confirm, domainVars, launchVars>>
  /\ UNCHANGED <<inputVars, pipelineVars_noErr, orgVars>>

\* runLaunch over the secret prompts and SetSecrets (called only if the user
\* gave a value)
runLaunchSecrets ==
  /\ cmd = "launch" /\ lpc = "secrets"
  /\ \E secrets \in {"none given", "set", "SetSecrets failed"} :
       IF secrets = "SetSecrets failed"
       THEN runLaunchReturn(Error("SetSecrets failed", ""))
       ELSE lpc' = "writeAppConfig" /\ UNCHANGED err
  /\ UNCHANGED <<args, selOrg, moveCalls, confirm, domainVars, launchVars>>
  /\ UNCHANGED <<inputVars, pipelineVars_noErr, orgVars>>

\* runLaunch from writeAppConfig to its return or to the deploy question
runLaunchWriteConfig ==
  /\ cmd = "launch" /\ lpc = "writeAppConfig"
  /\ \/ runLaunchReturn(Error("writeAppConfig failed", ""))
     \/ IF launch.srcInfo = "nil" THEN runLaunchReturn(NoErr)
        ELSE IF args.now THEN lpc' = "runDeploy" /\ UNCHANGED err
        ELSE lpc' = "confirm deploy" /\ UNCHANGED err
  /\ UNCHANGED <<args, selOrg, moveCalls, confirm, domainVars, launchVars>>
  /\ UNCHANGED <<inputVars, pipelineVars_noErr, orgVars>>

\* runLaunch from the answer to "deploy now?"
runLaunchConfirmDeploy ==
  /\ cmd = "launch" /\ lpc = "confirm deploy"
  /\ \E yes \in BOOLEAN :
       IF yes THEN lpc' = "runDeploy" /\ UNCHANGED err ELSE runLaunchReturn(NoErr)
  /\ UNCHANGED <<args, selOrg, moveCalls, confirm, domainVars, launchVars>>
  /\ UNCHANGED <<inputVars, pipelineVars_noErr, orgVars>>

\* return runDeploy(cmdctx)
runLaunchDeployed ==
  /\ cmd = "launch" /\ lpc = "runDeploy"
  /\ \E ok \in BOOLEAN : runLaunchReturn(IF ok THEN NoErr ELSE Error("runDeploy failed", ""))
  /\ UNCHANGED <<args, selOrg, moveCalls, confirm, domainVars, launchVars>>
  /\ UNCHANGED <<inputVars, pipelineVars_noErr, orgVars>>

\* ------------------------------------------------------ runDomainsRegister
\* what CheckDomain can answer
CheckResults ==
  [RegistrationSupported : BOOLEAN, RegistrationAvailable : BOOLEAN, TransferAvailable : BOOLEAN]

\* the tests of runDomainsRegister with a transferable domain let through
checkDomainSwitchTransfer(r) ==
  IF ~r.RegistrationSupported THEN "not supported"
  ELSE IF ~r.RegistrationAvailable /\ ~r.TransferAvailable THEN "not available"
  ELSE "go on"

\* the tests of runDomainsRegister on the answer of CheckDomain
checkDomainSwitch(r) ==
  IF ~r.RegistrationSupported THEN "not supported"
  ELSE IF ~r.RegistrationAvailable
  THEN IF r.TransferAvailable THEN "not available but can be transferred"
       ELSE "not available"
  ELSE "go on"

\* runDomainsRegister returns e
runDomainsRegisterReturn(e) == err' = e /\ lpc' = "done"

\* runDomainsRegister over its argument count: no argument, the organization
\* is selected; two, it is looked up by its slug; otherwise an error
runDomainsRegisterStart ==
  /\ cmd = "domains register" /\ lpc = "start"
  /\ IF args.count = 0
     THEN /\ lpc' = "selectOrganization" /\ rpc' = "fetching" /\ fetchCalls' = fetchCalls + 1
          /\ UNCHANGED err
     ELSE IF args.count = 2
     THEN /\ lpc' = "FindOrganizationBySlug"
          /\ UNCHANGED <<err, rpc, fetchCalls>>
     ELSE /\ runDomainsRegisterReturn(Error("specify all arguments (or no arguments to be prompted)", ""))
          /\ UNCHANGED <<rpc, fetchCalls>>
  /\ UNCHANGED <<fetched, orgs, selCalls, selOptions, selErr, selIndex>>
  /\ UNCHANGED <<args, selOrg, moveCalls, confirm, domainVars, launchVars>>
  /\ UNCHANGED <<inputVars, pipelineVars_noErr>>

\* selectOrganization returns (o, e) to runDomainsRegister: an error is
\* returned, otherwise the domain name is asked for
runDomainsRegisterSelected(o, e) ==
  /\ UNCHANGED <<moveCalls, confirm, domainVars, launchVars>>
  /\ IF e # NoErr
     THEN runDomainsRegisterReturn(e) /\ UNCHANGED selOrg
     ELSE selOrg' = o /\ lpc' = "name" /\ UNCHANGED err

\* runDomainsRegister from the answer of the prompt for the domain name: the
\* command goes on with the name (as it does if checkErr lets an error pass),
\* or checkErr ends it with the error of the prompt
runDomainsRegisterName ==
  /\ cmd = "domains register" /\ lpc = "name"
  /\ \/ lpc' = "CheckDomain" /\ UNCHANGED err
     \/ \E e \in {InterruptErr, ErrPrompt} : runDomainsRegisterReturn(e)
  /\ UNCHANGED <<args, selOrg, moveCalls, confirm, domainVars, launchVars>>
  /\ UNCHANGED <<inputVars, pipelineVars_noErr, orgVars>>

\* runDomainsRegister from the answer of FindOrganizationBySlug: an error,
\* an organization, or neither
runDomainsRegisterFound ==
  /\ cmd = "domains register" /\ lpc = "FindOrganizationBySlug"
  /\ \/ /\ runDomainsRegisterReturn(Error("FindOrganizationBySlug failed", ""))
        /\ UNCHANGED selOrg
     \/ \E o \in {Organization(1, t) : t \in OrganizationType} \cup {NoOrg} :
          selOrg' = o /\ lpc' = "CheckDomain" /\ UNCHANGED err
  /\ UNCHANGED <<args, moveCalls, confirm, domainVars, launchVars>>
  /\ UNCHANGED <<inputVars, pipelineVars_noErr, orgVars>>

\* runDomainsRegister from the answer of CheckDomain to its return or to the
\* confirmation of the price
runDomainsRegisterChecked ==
  /\ cmd = "domains register" /\ lpc = "CheckDomain"
  /\ \/ /\ runDomainsRegisterReturn(Error("CheckDomain failed", ""))
        /\ UNCHANGED checkResult
     \/ \E r \in CheckResults :
          /\ checkResult' = r
          /\ IF checkDomainSwitch(r) = "go on"
             THEN lpc' = "confirm" /\ UNCHANGED err
             ELSE runDomainsRegisterReturn(Error("The domain is " \o checkDomainSwitch(r), ""))
  /\ UNCHANGED <<args, selOrg, moveCalls, confirm, registerCalls, launchVars>>
  /\ UNCHANGED <<inputVars, pipelineVars_noErr, orgVars>>

\* runDomainsRegister from the answer to "Register ... for $...?" to its
\* return or to the call of CreateAndRegisterDomain; org.Slug is read for
\* the message before the call, which panics if there is no organization
runDomainsRegisterConfirm ==
  /\ cmd = "domains register" /\ lpc = "confirm"
  /\ \E answer \in BOOLEAN :
       /\ confirm' = answer
       /\ IF ~answer THEN runDomainsRegisterReturn(NoErr) /\ UNCHANGED registerCalls
          ELSE IF selOrg = NoOrg
          THEN /\ runDomainsRegisterReturn(Error("panic", "nil pointer dereference"))
               /\ UNCHANGED registerCalls
          ELSE /\ registerCalls' = Append(registerCalls, selOrg.ID)
               /\ lpc' = "CreateAndRegisterDomain"
               /\ UNCHANGED err
  /\ UNCHANGED <<args, selOrg, moveCalls, checkResult, launchVars>>
  /\ UNCHANGED <<inputVars, pipelineVars_noErr, orgVars>>

\* runDomainsRegister from the answer of CreateAndRegisterDomain
runDomainsRegisterRegistered ==
  /\ cmd = "domains register" /\ lpc = "CreateAndRegisterDomain"
  /\ \E ok \in BOOLEAN :
       runDomainsRegisterReturn(IF ok THEN NoErr ELSE Error("CreateAndRegisterDomain failed", ""))
  /\ UNCHANGED <<args, selOrg, moveCalls, confirm, domainVars, launchVars>>
  /\ UNCHANGED <<inputVars, pipelineVars_noErr, orgVars>>

\* a builder task whose failure becomes the error of the command
EagerlyEnsureRemoteBuilderReported ==
  /\ \E i \in 1..Len(builders) : \E outcome \in {"ok", "failed"} :
       /\ builders[i].state = "running"
       /\ builders' = [builders EXCEPT ![i].state = outcome]
       /\ err' = IF outcome = "failed" THEN Error("remote builder failed", "") ELSE err
  /\ UNCHANGED <<lpc, args, selOrg, moveCalls, confirm, domainVars, launch, createCalls>>
  /\ UNCHANGED <<inputVars, pipelineVars_noErr, orgVars>>

\* a builder task started by runLaunch ends, with or without success, at any
\* time after its start (or never); nothing reads its outcome
EagerlyEnsureRemoteBuilder ==
  /\ \E i \in 1..Len(builders) : \E outcome \in {"ok", "failed"} :
       /\ builders[i].state = "running"
       /\ builders' = [builders EXCEPT ![i].state = outcome]
  /\ UNCHANGED <<lpc, args, selOrg, moveCalls, confirm, domainVars, launch, createCalls>>
  /\ UNCHANGED <<inputVars, pipelineVars, orgVars>>

\* the return of selectOrganization to the command that called it
selectOrganizationReturn(o, e) ==
  IF cmd = "launch" THEN runLaunchSelected(o, e)
  ELSE IF cmd = "domains register" THEN runDomainsRegisterSelected(o, e)
  ELSE runMoveSelected(o, e)

\* checkResult before CheckDomain has answered
NoCheck == [RegistrationSupported |-> FALSE, RegistrationAvailable |-> FALSE,
            TransferAvailable |-> FALSE]

\* runMove up to the call of GetOrganizations in selectOrganization
runMoveGetApp ==
  /\ cmd = "move" /\ lpc = "start"
  /\ \/ /\ err' = Error("Error fetching app", "")
        /\ lpc' = "done"
        /\ UNCHANGED orgVars
     \/ /\ lpc' = "selectOrganization"
        /\ rpc' = "fetching"
        /\ fetchCalls' = fetchCalls + 1
        /\ UNCHANGED <<err, fetched, orgs, selCalls, selOptions, selErr, selIndex>>
  /\ UNCHANGED <<args, selOrg, moveCalls, confirm, domainVars>>
  /\ UNCHANGED launchVars
  /\ UNCHANGED <<stage, idx, ctx, calls, bodyRuns, apiBaseURL, notice, updateCheck>>
  /\ UNCHANGED inputVars

\* selectOrganization auto-selecting the only organization whatever its type
selectOrganizationAutoAnyType(list) == Len(list) = 1

\* if len(orgs) == 1 && orgs[0].Type == "PERSONAL", tested before the sort
selectOrganizationAuto(list) == Len(list) = 1 /\ list[1].Type = PERSONAL

\* selectOrganization from the answer of GetOrganizations to its return or
\* to its prompt; the slug it is given is not looked at
selectOrganizationFetched ==
  /\ lpc = "selectOrganization" /\ rpc = "fetching"
  /\ \/ /\ selectOrganizationReturn(NoOrg, ErrGetOrganizations)
        /\ rpc' = "idle"
        /\ UNCHANGED <<fetched, orgs, fetchCalls, selCalls, selOptions, selErr, selIndex>>
     \/ \E list \in OrgLists(MaxOrgs) :
          /\ fetched' = list
          /\ IF selectOrganizationAuto(list)
             THEN /\ orgs' = list
                  /\ selectOrganizationReturn(list[1], NoErr)
                  /\ rpc' = "idle"
                  /\ UNCHANGED <<fetchCalls, selCalls, selOptions, selErr, selIndex>>
             ELSE \E sorted \in SortSlice(list) :
                  /\ orgs' = sorted
                  /\ selOptions' = Labels(sorted)
                  /\ selCalls' = selCalls + 1
                  /\ rpc' = "prompting"
                  /\ UNCHANGED <<fetchCalls, selErr, selIndex, err, lpc, selOrg, moveCalls, confirm, domainVars>>
                  /\ UNCHANGED launchVars
  /\ UNCHANGED args
  /\ UNCHANGED <<stage, idx, ctx, calls, bodyRuns, apiBaseURL, notice, updateCheck>>
  /\ UNCHANGED inputVars

\* selectOrganization from the answer of the prompt to its return
selectOrganizationSelected ==
  /\ lpc = "selectOrganization" /\ rpc = "prompting"
  /\ \E reply \in SelectReplies(Len(selOptions)) :
       LET r == selectOrgResult(orgs, reply)
       IN /\ selErr' = reply.err
          /\ selIndex' = reply.index
          /\ selectOrganizationReturn(r.org, r.err)
  /\ rpc' = "idle"
  /\ UNCHANGED <<fetched, orgs, fetchCalls, selCalls, selOptions>>
  /\ UNCHANGED args
  /\ UNCHANGED <<stage, idx, ctx, calls, bodyRuns, apiBaseURL, notice, updateCheck>>
  /\ UNCHANGED inputVars

\* runMove from the answer of the confirmation prompt
runMoveConfirm ==
  /\ cmd = "move" /\ lpc = "confirm"
  /\ \/ \E e \in {InterruptErr, ErrPrompt} :
          /\ err' = e /\ lpc' = "done" /\ UNCHANGED <<moveCalls, confirm>>
     \/ \E answer \in BOOLEAN :
          /\ confirm' = answer
          /\ IF answer
             THEN lpc' = "MoveApp" /\ moveCalls' = Append(moveCalls, selOrg.ID) /\ UNCHANGED err
             ELSE lpc' = "done" /\ err' = NoErr /\ UNCHANGED moveCalls
  /\ UNCHANGED domainVars
  /\ UNCHANGED <<args, selOrg>>
  /\ UNCHANGED launchVars
  /\ UNCHANGED <<stage, idx, ctx, calls, bodyRuns, apiBaseURL, notice, updateCheck>>
  /\ UNCHANGED <<inputVars, orgVars>>

\* runMove from the answer of MoveApp
runMoveMoved ==
  /\ cmd = "move" /\ lpc = "MoveApp"
  /\ \E ok \in BOOLEAN :
       err' = IF ok THEN NoErr ELSE Error("Failed to move app", "")
  /\ lpc' = "done"
  /\ UNCHANGED <<args, selOrg, moveCalls, confirm, domainVars>>
  /\ UNCHANGED launchVars
  /\ UNCHANGED <<stage, idx, ctx, calls, bodyRuns, apiBaseURL, notice, updateCheck>>
  /\ UNCHANGED <<inputVars, orgVars>>

\* ------------------------------------------------------------ the sort alone
SortOrgs ==
  /\ cmd = "sort" /\ lpc = "start"
  /\ \E sorted \in SortSlice(fetched) : orgs' = sorted
  /\ lpc' = "done"
  /\ UNCHANGED <<rpc, fetched, fetchCalls, selCalls, selOptions, selErr, selIndex>>
  /\ UNCHANGED <<args, selOrg, moveCalls, confirm, domainVars>>
  /\ UNCHANGED launchVars
  /\ UNCHANGED <<inputVars, pipelineVars>>

\* ----------------------------------------------------------- specifications
\* the command-specific chains commands are built with
PreparerChains ==
  {<<>>, <<"RequireSession">>, <<"RequireOrg">>, <<"RequireSession", "RequireOrg">>,
   <<"RequireSession", "RequireSession">>, <<"RequireOrg", "RequireSession">>}

Source(token, org, url) ==
  [o \in Options |-> IF o = "AccessToken" THEN token ELSE IF o = "Organization" THEN org ELSE url]

Input(env, file, flags, st) == [env |-> env, file |-> file, flags |-> flags, fileStatus |-> st]

\* what loadConfig finds in the invocation specification: the environment
\* may hold an access token, the file a default organization, the flags an
\* organization override (the empty one included)
Inputs ==
  { Input(Source(t, Unset, Unset), Source(Unset, fo, Unset), Source(Unset, go, Unset), st) :
      t \in {Unset, "tok"}, fo \in {Unset, "o2"}, go \in {Unset, "", "o1", "ghost-org"},
      st \in FileStatus }

\* what loadConfig finds in the configuration specification: every source
\* sets or leaves unset every option
SourceChoices ==
  { Source(t, o, u) : t \in {Unset, "tok1", "tok2"}, o \in {Unset, "", "o1"},
                      u \in {Unset, "urlA", "urlB"} }
ConfigInputs ==
  { Input(e, f, g, "ok") : e \in SourceChoices, f \in SourceChoices, g \in SourceChoices }
    \cup { Input(e, NoSource, g, st) : e \in SourceChoices, g \in SourceChoices,
                                       st \in {"missing", "malformed"} }

NoArgs == [org |-> "", yes |-> FALSE]

Idle ==
  /\ stage = "idle" /\ idx = 1 /\ ctx = EmptyCtx /\ err = NoErr /\ calls = <<>>
  /\ bodyRuns = 0 /\ apiBaseURL = "" /\ notice = "none" /\ updateCheck = "none"
  /\ rpc = "idle" /\ fetched = <<>> /\ orgs = <<>>
  /\ fetchCalls = 0 /\ selCalls = 0 /\ selOptions = <<>> /\ selErr = NoErr
  /\ selIndex = 0
  /\ selOrg = NoOrg /\ moveCalls = <<>>
  /\ launch = NoLaunch /\ builders = <<>> /\ createCalls = <<>>
  /\ confirm = FALSE /\ checkResult = NoCheck /\ registerCalls = <<>>

\* a command built by command.New is invoked
InitNew ==
  /\ cmd = "new"
  /\ fn \in BOOLEAN
  /\ preparers \in PreparerChains
  /\ in \in Inputs
  /\ lpc = "none" /\ args = NoArgs
  /\ Idle

\* the move command is invoked
InitMove ==
  /\ cmd = "move"
  /\ fn = TRUE /\ preparers = <<>> /\ in = Input(NoSource, NoSource, NoSource, "missing")
  /\ lpc = "start"
  /\ args \in [org : {"", "o1", "o2", "ghost-org"}, yes : BOOLEAN]
  /\ Idle

\* the launch command is invoked
InitLaunch ==
  /\ cmd = "launch"
  /\ fn = TRUE /\ preparers = <<>> /\ in = Input(NoSource, NoSource, NoSource, "missing")
  /\ lpc = "start"
  /\ args \in [org : {"", "o1"}, now : BOOLEAN, image : BOOLEAN]
  /\ Idle

\* the domains register command is invoked with any number of arguments
InitDomainsRegister ==
  /\ cmd = "domains register"
  /\ fn = TRUE /\ preparers = <<>> /\ in = Input(NoSource, NoSource, NoSource, "missing")
  /\ lpc = "start"
  /\ args \in [count : 0..3]
  /\ Idle

Init == InitNew \/ InitMove \/ InitLaunch \/ InitDomainsRegister

Next ==
  \/ RunE
  \/ determineWorkingDir
  \/ determineUserHomeDir
  \/ determineConfigDir
  \/ determineConfigFile
  \/ loadConfig
  \/ initClient
  \/ promptToUpdate
  \/ RequireSession
  \/ RequireOrgSession
  \/ RequireOrgFetched
  \/ RequireOrgSelected
  \/ Body
  \/ runMoveGetApp
  \/ selectOrganizationFetched
  \/ selectOrganizationSelected
  \/ runMoveConfirm
  \/ runMoveMoved
  \/ runLaunchStart
  \/ runLaunchAppStatus
  \/ runLaunchConfirmCopy
  \/ runLaunchScan
  \/ runLaunchRegion
  \/ runLaunchCreated
  \/ runLaunchSecrets
  \/ runLaunchWriteConfig
  \/ runLaunchConfirmDeploy
  \/ runLaunchDeployed
  \/ EagerlyEnsureRemoteBuilder
  \/ runDomainsRegisterStart
  \/ runDomainsRegisterName
  \/ runDomainsRegisterFound
  \/ runDomainsRegisterChecked
  \/ runDomainsRegisterConfirm
  \/ runDomainsRegisterRegistered

Spec == Init /\ [][Next]_vars

\* the common chain and the body under every combination of sources
InitConfig ==
  /\ cmd = "new"
  /\ fn = TRUE
  /\ preparers = <<>>
  /\ in \in ConfigInputs
  /\ lpc = "none" /\ args = NoArgs
  /\ Idle

NextConfig ==
  \/ RunE
  \/ determineWorkingDir
  \/ determineUserHomeDir
  \/ determineConfigDir
  \/ determineConfigFile
  \/ loadConfig
  \/ initClient
  \/ promptToUpdate
  \/ Body

SpecConfig == InitConfig /\ [][NextConfig]_vars

\* sort.Slice applied to every organization list of up to MaxSortLen entries
InitSort ==
  /\ cmd = "sort"
  /\ fn = TRUE /\ preparers = <<>> /\ in = Input(NoSource, NoSource, NoSource, "missing")
  /\ lpc = "start" /\ args = NoArgs
  /\ stage = "idle" /\ idx = 1 /\ ctx = EmptyCtx /\ err = NoErr /\ calls = <<>>
  /\ bodyRuns = 0 /\ apiBaseURL = "" /\ notice = "none" /\ updateCheck = "none"
  /\ rpc = "idle" /\ fetched \in OrgLists(MaxSortLen) /\ orgs = <<>>
  /\ fetchCalls = 0 /\ selCalls = 0 /\ selOptions = <<>> /\ selErr = NoErr
  /\ selIndex = 0
  /\ selOrg = NoOrg /\ moveCalls = <<>>
  /\ launch = NoLaunch /\ builders = <<>> /\ createCalls = <<>>
  /\ confirm = FALSE /\ checkResult = NoCheck /\ registerCalls = <<>>

NextSort == SortOrgs

SpecSort == InitSort /\ [][NextSort]_vars

\* =================================================================== claims
\* the chain of an invocation: the common preparers, then the specific ones
FullChain == commonPreparers \o preparers

\* the preparer call i has returned an error
Failed(i) == calls[i].err \notin {NoErr, Pending}

\* C1: prepare runs the preparers strictly in list order, and when a
\* preparer fails no later preparer is invoked and the error of the
\* invocation is exactly the error that preparer returned.
C1_ShortCircuit ==
  /\ Len(calls) <= Len(FullChain)
  /\ \A i \in 1..Len(calls) : calls[i].p = FullChain[i]
  /\ \A i \in 1..Len(calls) : Failed(i) => i = Len(calls) /\ err = calls[i].err

\* the first of two command-specific preparers has failed
C1_Witness ==
  /\ preparers = <<"RequireSession", "RequireOrg">>
  /\ Len(calls) = Len(commonPreparers) + 1
  /\ calls[Len(calls)] = [p |-> "RequireSession", err |-> ErrNoAuthToken]
  /\ stage = "done" /\ err = ErrNoAuthToken

\* C2: the body is invoked only if every common and every command-specific
\* preparer succeeded; if a preparer fails the body is never executed and the
\* invocation returns that error.
C2_BodyAfterPreparers ==
  /\ (stage = "body" \/ bodyRuns > 0) =>
        /\ Len(calls) = Len(FullChain)
        /\ \A i \in 1..Len(calls) : calls[i].err = NoErr
  /\ \A i \in 1..Len(calls) :
        Failed(i) => bodyRuns = 0 /\ stage = "done" /\ err = calls[i].err
  /\ bodyRuns <= 1

\* the body has run after a chain with two command-specific preparers
C2_Witness ==
  /\ bodyRuns = 1 /\ stage = "done"
  /\ Len(preparers) = 2 /\ Len(calls) = Len(commonPreparers) + 2

\* the slug override RequireOrg reads from the configuration
SlugOverride == loadConfigResult(in).cfg["Organization"]

\* RequireOrg has returned after GetOrganizations answered with a list
RequireOrgDecided ==
  /\ cmd = "new" /\ calls # <<>>
  /\ calls[Len(calls)].p = "RequireOrg"
  /\ calls[Len(calls)].err \notin {Pending, ErrNoAuthToken, ErrGetOrganizations}

RequireOrgErr == calls[Len(calls)].err

\* C3: with a non-empty slug override, RequireOrg stores the organization of
\* the fetched list that has exactly that slug, whatever the number and types
\* of the organizations and without invoking the selector; if there is none
\* it fails with the not-found error naming the slug and stores nothing.
C3_SlugOverride ==
  (RequireOrgDecided /\ SlugOverride # "") =>
     /\ selCalls = 0
     /\ IF \E k \in 1..Len(fetched) : fetched[k].Slug = SlugOverride
        THEN /\ RequireOrgErr = NoErr
             /\ ~ctx.nil /\ "Org" \in ctx.has
             /\ ctx.org \in {fetched[k] : k \in 1..Len(fetched)}
             /\ ctx.org.Slug = SlugOverride
        ELSE /\ RequireOrgErr = ErrOrgNotFound(SlugOverride)
             /\ err = ErrOrgNotFound(SlugOverride)
             /\ ctx = NilCtx

\* the override names the shared organization of a three-entry list whose
\* sorted first entry is another, personal, organization
C3_Witness ==
  /\ RequireOrgDecided /\ SlugOverride = "o1"
  /\ Len(fetched) = 3 /\ orgs[1].Type = PERSONAL /\ orgs[1].Slug # "o1"
  /\ ctx.org.Slug = "o1" /\ ctx.org.Type = SHARED

\* C4: with an empty slug override and a fetched list of exactly one
\* organization, of type personal, RequireOrg stores that organization
\* without invoking the selector.
C4_AutoSelect ==
  (RequireOrgDecided /\ SlugOverride = "" /\ Len(fetched) = 1 /\ fetched[1].Type = PERSONAL) =>
     /\ selCalls = 0
     /\ RequireOrgErr = NoErr
     /\ ~ctx.nil /\ "Org" \in ctx.has /\ ctx.org = fetched[1]

C4_Witness ==
  /\ RequireOrgDecided /\ SlugOverride = ""
  /\ Len(fetched) = 1 /\ fetched[1].Type = PERSONAL
  /\ ctx.org = fetched[1] /\ stage = "body"

\* GetOrganizations has answered RequireOrg with a list of two or more
\* organizations whose first entry (as fetched or as sorted) is not personal
C5_Case ==
  /\ cmd = "new" /\ SlugOverride = "" /\ Len(fetched) >= 2
  /\ (fetched[1].Type # PERSONAL \/ orgs[1].Type # PERSONAL)

\* C5: for a fetched list of two or more organizations with no slug override
\* and a non-personal first entry, RequireOrg invokes the selector exactly
\* once, whatever the selector answers.
C5_SelectorOnce == C5_Case => selCalls = 1

\* the selector was invoked, answered with an error, and RequireOrg returned
C5_Witness ==
  /\ C5_Case /\ RequireOrgDecided /\ RequireOrgErr = ErrPrompt
  /\ selCalls = 1 /\ stage = "done"

\* every personal entry precedes every shared entry
PersonalFirst(os) ==
  \A i, j \in 1..Len(os) : (os[i].Type = PERSONAL /\ os[j].Type = SHARED) => i < j

\* organizations of equal type are in fetch order (the ID of an organization
\* is its position in the fetched list)
KeepsFetchOrder(os) ==
  \A i, j \in 1..Len(os) : (i < j /\ os[i].Type = os[j].Type) => os[i].ID < os[j].ID

\* os holds exactly the organizations of list
SameOrgs(os, list) ==
  /\ Len(os) = Len(list)
  /\ \A k \in 1..Len(list) : \E i \in 1..Len(os) : os[i] = list[k]

\* C6 (as stated): the fetched list is stable-sorted by type: personal entries
\* first, organizations of equal type in their fetch order.
C6_StableSort ==
  (cmd = "sort" /\ lpc = "done") =>
     SameOrgs(orgs, fetched) /\ PersonalFirst(orgs) /\ KeepsFetchOrder(orgs)

\* C6 (amended): the fetched list is sorted by type: the sorted list holds the
\* same organizations with every personal entry before every shared entry;
\* organizations of equal type keep their fetch order when the list has at
\* most ShellGap entries.
C6_SortedByType ==
  (cmd = "sort" /\ lpc = "done") =>
     /\ SameOrgs(orgs, fetched) /\ PersonalFirst(orgs)
     /\ Len(fetched) <= ShellGap => KeepsFetchOrder(orgs)

\* a list that starts with shared entries and holds a personal entry has
\* been sorted
C6_Witness ==
  /\ cmd = "sort" /\ lpc = "done"
  /\ Len(fetched) = 3 /\ fetched[1].Type = SHARED /\ fetched[2].Type = SHARED
  /\ orgs[1].Type = PERSONAL /\ orgs[1].ID = 3

\* C7 (as stated): when move is invoked with a non-empty --org slug that one
\* of the fetched organizations has, the target passed to MoveApp is the
\* organization with that slug.
C7_MoveTargetIsSlug ==
  (cmd = "move" /\ args.org # "") =>
     \A i \in 1..Len(moveCalls) : \A k \in 1..Len(fetched) :
        fetched[k].Slug = args.org => moveCalls[i] = fetched[k].ID

\* the invocation is over
Finished == IF cmd = "new" THEN stage = "done" ELSE lpc = "done"

\* C8 (as stated): when the user cancels the organization choice the
\* invocation ends without proceeding and without an error; when the prompt
\* fails otherwise it ends with an error; both for RequireOrg and for runMove.
C8_CancelIsSilent ==
  /\ selErr = InterruptErr => Finished /\ err = NoErr /\ bodyRuns = 0 /\ moveCalls = <<>>
  /\ selErr = ErrPrompt => Finished /\ err # NoErr /\ bodyRuns = 0 /\ moveCalls = <<>>

\* C8 (amended): in runMove a cancelled organization choice ends the command
\* without MoveApp and without an error, and any other prompt failure ends it
\* with an error; in RequireOrg every failure of the prompt, the cancellation
\* included, is returned as the error of the invocation and the body is not
\* run.
C8_CancelHandling ==
  /\ (cmd = "move" /\ selErr = InterruptErr) =>
        lpc = "done" /\ err = NoErr /\ moveCalls = <<>>
  /\ (cmd = "move" /\ selErr = ErrPrompt) =>
        lpc = "done" /\ err = Error("Error setting organization", ErrPrompt.kind)
           /\ moveCalls = <<>>
  /\ (cmd = "new" /\ selErr # NoErr) =>
        stage = "done" /\ err = selErr /\ ctx = NilCtx /\ bodyRuns = 0

\* the user has cancelled the organization choice of the move command
C8_Witness ==
  /\ cmd = "move" /\ selErr = InterruptErr /\ selCalls = 1 /\ lpc = "done"

\* the value precedence gives option o: flags over file over environment
\* over defaults
ByPrecedence(o) ==
  IF in.flags[o] # Unset THEN in.flags[o]
  ELSE IF in.fileStatus = "ok" /\ in.file[o] # Unset THEN in.file[o]
  ELSE IF in.env[o] # Unset THEN in.env[o]
  ELSE DefaultConfig[o]

\* C9: the configuration loadConfig stores gives every option the value of
\* the highest-precedence source that sets it (environment < file < flags);
\* a set flag overwrites, an unset flag does not.
C9_Precedence ==
  (~ctx.nil /\ "Config" \in ctx.has) => \A o \in Options : ctx.cfg[o] = ByPrecedence(o)

\* the environment and the file set the base URL and the flags do not; the
\* file sets an organization and the flags set the empty one
C9_Witness ==
  /\ ~ctx.nil /\ "Config" \in ctx.has /\ in.fileStatus = "ok"
  /\ in.env["APIBaseURL"] = "urlA" /\ in.file["APIBaseURL"] = "urlB"
  /\ in.flags["APIBaseURL"] = Unset
  /\ in.file["Organization"] = "o1" /\ in.flags["Organization"] = ""
  /\ ctx.cfg["APIBaseURL"] = "urlB" /\ ctx.cfg["Organization"] = ""

\* loadConfig has been called
loadConfigCalled == Len(calls) >= 5 /\ calls[5].p = "loadConfig"

\* C10: a missing config file is not an error: loadConfig stores the
\* configuration of environment and flags and the chain goes on. A file that
\* fails to parse is fatal: loadConfig returns the error, stores nothing, and
\* no later preparer (initClient included) nor the body runs.
C10_MissingVsMalformed ==
  /\ (loadConfigCalled /\ in.fileStatus = "missing") =>
        /\ calls[5].err = NoErr
        /\ ~ctx.nil /\ "Config" \in ctx.has
        /\ ctx.cfg = ApplyFlags(ApplyEnv(DefaultConfig, in.env), in.flags)
        /\ (stage = "done" => Len(calls) = Len(FullChain) /\ bodyRuns = 1)
  /\ (loadConfigCalled /\ in.fileStatus = "malformed") =>
        /\ calls[5].err = ErrConfigParse /\ Len(calls) = 5
        /\ stage = "done" /\ err = ErrConfigParse
        /\ ctx = NilCtx /\ apiBaseURL = "" /\ bodyRuns = 0

\* the file is missing, environment and flags both set the access token, and
\* the chain has gone on to the body
C10_Witness ==
  /\ in.fileStatus = "missing" /\ stage = "done" /\ bodyRuns = 1
  /\ in.env["AccessToken"] = "tok1" /\ in.flags["AccessToken"] = "tok2"
  /\ ctx.cfg["AccessToken"] = "tok2" /\ ctx.token = "tok2"

\* C11: RequireSession fails with the no-session error whenever the client
\* is not authenticated; otherwise it returns the context it was given,
\* unchanged. It makes no remote call, no prompt and no other update, and a
\* second application to its result gives the same result as the first.
C11_RequireSession ==
  [][ Current = "RequireSession" =>
        /\ calls' = Append(calls, [p |-> "RequireSession", err |-> err'])
        /\ IF ctx.token # ""
           THEN /\ err' = NoErr /\ ctx' = ctx
                /\ (Len(calls) > Len(commonPreparers) /\ calls[Len(calls)].p = "RequireSession")
                      => calls[Len(calls)].err = NoErr
           ELSE err' = ErrNoAuthToken /\ ctx' = NilCtx /\ stage' = "done"
        /\ UNCHANGED <<rpc, fetched, orgs, fetchCalls, selCalls, selOptions, selErr, selIndex>>
        /\ UNCHANGED <<bodyRuns, apiBaseURL, notice, updateCheck>> ]_vars

\* RequireSession has been applied twice to an authenticated client
C11_Witness ==
  /\ preparers = <<"RequireSession", "RequireSession">>
  /\ Len(calls) = Len(commonPreparers) + 2
  /\ calls[Len(calls) - 1] = [p |-> "RequireSession", err |-> NoErr]
  /\ calls[Len(calls)] = [p |-> "RequireSession", err |-> NoErr]
  /\ ~ctx.nil /\ ctx.token = "tok" /\ stage = "body"

\* the seven common preparers have all returned nil
CommonChainDone ==
  /\ Len(calls) >= 7
  /\ \A j \in 1..7 : calls[j].err = NoErr
  /\ <<calls[1].p, calls[2].p, calls[3].p, calls[4].p, calls[5].p, calls[6].p, calls[7].p>>
       = <<"determineWorkingDir", "determineUserHomeDir", "determineConfigDir",
           "determineConfigFile", "loadConfig", "initClient", "promptToUpdate">>

\* C12: the stages run in the order common chain, command-specific chain,
\* body and are not interleaved: a command-specific preparer starts only when
\* all seven common preparers have returned nil, the body only when the last
\* command-specific preparer has returned nil; an error of any stage, the
\* body's included, is the error of the invocation.
C12_StageOrder ==
  cmd = "new" =>
    /\ stage = "common" => Len(calls) < 7 /\ bodyRuns = 0
    /\ \A i \in 1..Len(calls) :
          calls[i].p \in {"RequireSession", "RequireOrg"} => i > 7 /\ CommonChainDone
    /\ stage = "specific" => CommonChainDone /\ bodyRuns = 0
    /\ (stage = "body" \/ bodyRuns > 0) =>
          /\ CommonChainDone
          /\ Len(calls) = 7 + Len(preparers)
          /\ \A i \in 1..Len(preparers) : calls[7 + i] = [p |-> preparers[i], err |-> NoErr]
    /\ stage = "done" =>
          IF bodyRuns = 0
          THEN calls # <<>> /\ Failed(Len(calls)) /\ err = calls[Len(calls)].err
          ELSE bodyRuns = 1 /\ err \in {NoErr, ErrBody}

\* the body has run after both stages and its error is the invocation's
C12_Witness ==
  /\ cmd = "new" /\ stage = "done" /\ bodyRuns = 1 /\ err = ErrBody
  /\ preparers = <<"RequireSession", "RequireOrg">> /\ Len(calls) = 9

\* the error of a failed call of GetOrganizations or of the selector
IsFetchOrPromptErr(e) == e \in {ErrGetOrganizations, InterruptErr, ErrPrompt}

\* C13: a fetch or prompt failure inside RequireOrg aborts the whole chain
\* and nothing is retried: the list is fetched at most once, the selector is
\* invoked at most once, and after such a failure RequireOrg has returned
\* that error, no organization is stored and neither a later preparer nor
\* the body runs.
C13_NoRetry ==
  cmd = "new" =>
    /\ fetchCalls <= 1 /\ selCalls <= 1
    /\ selErr # NoErr =>
          \E i \in 1..Len(calls) : calls[i] = [p |-> "RequireOrg", err |-> selErr]
    /\ \A i \in 1..Len(calls) :
          (calls[i].p = "RequireOrg" /\ IsFetchOrPromptErr(calls[i].err)) =>
             /\ i = Len(calls) /\ stage = "done" /\ err = calls[i].err
             /\ ctx = NilCtx /\ bodyRuns = 0
             /\ fetchCalls = 1 /\ rpc = "idle"
             /\ (calls[i].err = ErrGetOrganizations => selCalls = 0)

\* GetOrganizations has failed in a chain with a preparer after RequireOrg
C13_Witness ==
  /\ cmd = "new" /\ preparers = <<"RequireOrg", "RequireSession">>
  /\ Len(calls) = 8 /\ calls[8] = [p |-> "RequireOrg", err |-> ErrGetOrganizations]
  /\ stage = "done" /\ fetchCalls = 1

\* C14: the common chain runs in the order working directory, home
\* directory, config directory, config file path, load configuration,
\* initialise client, update notice, and when a step reads a fact (home for
\* the config directory, config directory for the config file path, config
\* file path for loading, configuration for the client) an earlier step of
\* the invocation has set it.
C14_CommonOrder ==
  cmd = "new" =>
    /\ \A i \in 1..Len(calls) : i <= 7 =>
          calls[i].p = <<"determineWorkingDir", "determineUserHomeDir", "determineConfigDir",
                         "determineConfigFile", "loadConfig", "initClient",
                         "promptToUpdate">>[i]
    /\ Current = "determineConfigDir" => ~ctx.nil /\ "UserHomeDirectory" \in ctx.has
    /\ Current = "determineConfigFile" => ~ctx.nil /\ "ConfigDirectory" \in ctx.has
    /\ Current = "loadConfig" => ~ctx.nil /\ "ConfigFile" \in ctx.has
    /\ Current = "initClient" => ~ctx.nil /\ "Config" \in ctx.has
    /\ (~ctx.nil /\ "ConfigDirectory" \in ctx.has) => ctx.configDir = "/home/u/.fly"
    /\ (~ctx.nil /\ "ConfigFile" \in ctx.has) => ctx.configFile = "/home/u/.fly/config.yml"
    /\ (~ctx.nil /\ "Client" \in ctx.has) => ctx.token = ctx.cfg["AccessToken"]

\* the common chain has run to its end
C14_Witness ==
  /\ cmd = "new" /\ Len(calls) = 7 /\ stage = "body"
  /\ ctx.has = {"WorkingDirectory", "UserHomeDirectory", "ConfigDirectory", "ConfigFile",
                "Config", "Client"}
  /\ ctx.configFile = "/home/u/.fly/config.yml" /\ ctx.token = "tok"

\* a step of the launch command itself (not of a builder task)
runLaunchStep ==
  \/ runLaunchStart \/ runLaunchAppStatus \/ runLaunchConfirmCopy \/ runLaunchScan
  \/ selectOrganizationFetched \/ selectOrganizationSelected
  \/ runLaunchRegion \/ runLaunchCreated \/ runLaunchSecrets
  \/ runLaunchWriteConfig \/ runLaunchConfirmDeploy \/ runLaunchDeployed

\* what the launch command reads and returns
launchForeground ==
  <<lpc, err, args, selOrg, launch, createCalls, moveCalls, orgVars, pipelineVars, inputVars>>

\* C15: the builder tasks of runLaunch are fire-and-forget. A task is started
\* running and the command goes on in the same step; a step of a task
\* (ending with success or with failure) changes nothing the command reads
\* or returns; and until it has returned the command always has a next step
\* of its own, whatever state the tasks are in.
C15_FireAndForget ==
  /\ [][ cmd = "launch" =>
          /\ Len(builders') > Len(builders) =>
                /\ builders' = Append(builders, [org |-> builders'[Len(builders')].org,
                                                 state |-> "running"])
                /\ lpc' # lpc
          /\ (Len(builders') = Len(builders) /\ builders' # builders) =>
                UNCHANGED launchForeground ]_vars
  /\ [](cmd = "launch" /\ lpc # "done" => ENABLED <<runLaunchStep>>_launchForeground)

\* the launch ends with success and an app created while its first builder
\* task has failed and its second is still running
C15_Witness ==
  /\ cmd = "launch" /\ lpc = "done" /\ err = NoErr
  /\ Len(createCalls) = 1
  /\ Len(builders) = 2
  /\ builders[1].state = "failed" /\ builders[2].state = "running"

\* what a run of a resolver shows: how often it prompted, with which labels,
\* and the organization and the error it returned
Outcome(prompts, options, org, e) ==
  [prompts |-> prompts, options |-> options, org |-> org, err |-> e]

\* RequireOrg with no slug override, after its session check, as a function
\* of the answer of GetOrganizations (failed, or the list as sorted) and of
\* the selector's reply
RequireOrgRun(sorted, failed, reply) ==
  IF failed THEN Outcome(0, <<>>, NoOrg, ErrGetOrganizations)
  ELSE LET d == RequireOrgSwitch("", sorted)
       IN IF d.kind = "prompt"
          THEN Outcome(1, Labels(sorted), selectOrgResult(sorted, reply).org,
                       selectOrgResult(sorted, reply).err)
          ELSE Outcome(0, <<>>, d.org, NoErr)

\* selectOrganization with no type filter as a function of the same
selectOrganizationRun(list, sorted, failed, reply) ==
  IF failed THEN Outcome(0, <<>>, NoOrg, ErrGetOrganizations)
  ELSE IF selectOrganizationAuto(list) THEN Outcome(0, <<>>, list[1], NoErr)
  ELSE IF reply.err # NoErr THEN Outcome(1, Labels(sorted), NoOrg, reply.err)
  ELSE Outcome(1, Labels(sorted), sorted[reply.index], NoErr)

\* the step in which RequireOrg, past its session check and with no slug
\* override, returns
RequireOrgReturns ==
  cmd = "new" /\ rpc # "idle" /\ rpc' = "idle" /\ ctx.cfg["Organization"] = ""

\* the step in which selectOrganization returns to runLaunch, which passes
\* its error on unchanged
selectOrganizationReturns ==
  cmd = "launch" /\ lpc = "selectOrganization" /\ lpc' # lpc

\* C21: with no slug override RequireOrg (past its session check) and
\* selectOrganization with no type filter are equivalent: on the same fetch
\* answer and the same selector reply, each of them prompts as often, with
\* the same labels in the same order, and returns the same organization or
\* the same error as the other (a run that did not prompt is compared under
\* every reply the selector could have given).
C21_Equivalent ==
  [][ (RequireOrgReturns \/ selectOrganizationReturns) =>
        LET replies == IF selCalls' = 0 THEN SelectReplies(Len(orgs'))
                       ELSE {[err |-> selErr', index |-> selIndex']}
            failed == err' = ErrGetOrganizations
            org == IF cmd = "launch" THEN selOrg'
                   ELSE IF ctx'.nil THEN NoOrg ELSE ctx'.org
            seen == Outcome(selCalls', selOptions', org, err')
        IN \A reply \in replies :
             /\ seen = RequireOrgRun(orgs', failed, reply)
             /\ seen = selectOrganizationRun(fetched', orgs', failed, reply) ]_vars

\* selectOrganization has sorted a list that came shared first, prompted
\* once and returned the second entry to runLaunch
C21_Witness ==
  /\ cmd = "launch" /\ lpc = "selectRegion"
  /\ Len(fetched) = 2 /\ fetched[1].Type = SHARED /\ orgs[1].Type = PERSONAL
  /\ selCalls = 1 /\ selIndex = 2 /\ selOrg = orgs[2] /\ err = NoErr

\* RequireOrg has stored an organization in the context
OrgResolved == cmd = "new" /\ ~ctx.nil /\ "Org" \in ctx.has

\* C22: whenever RequireOrg succeeds, the organization it stores is an entry
\* of the list GetOrganizations returned in that run; when that list is empty
\* RequireOrg stores nothing and returns an error, whatever the slug override
\* and whatever the selector answers.
C22_StoredIsFetched ==
  /\ OrgResolved => \E k \in 1..Len(fetched) : ctx.org = fetched[k]
  /\ (RequireOrgDecided /\ fetched = <<>>) =>
        /\ ~OrgResolved
        /\ RequireOrgErr # NoErr /\ err = RequireOrgErr /\ stage = "done"

\* the organization chosen at the prompt, second of the sorted list, is the
\* first of the fetched one, and the body runs with it
C22_Witness ==
  /\ OrgResolved /\ stage = "body"
  /\ Len(fetched) = 2 /\ selCalls = 1 /\ selIndex = 2
  /\ ctx.org = fetched[1] /\ ctx.org # orgs[1]

\* C23: runMove calls MoveApp at most once, and only after the app was
\* fetched (selectOrganization is called after GetApp succeeded), an
\* organization was selected without error, and --yes is set or the user
\* answered the confirmation with yes. After an interrupted or failed
\* selection, a failed confirmation prompt or a declined confirmation,
\* MoveApp has not been called.
C23_MoveAtMostOnce ==
  cmd = "move" =>
    /\ Len(moveCalls) <= 1
    /\ moveCalls # <<>> =>
          /\ fetchCalls = 1 /\ selErr = NoErr
          /\ \E k \in 1..Len(fetched) : selOrg = fetched[k]
          /\ moveCalls[1] = selOrg.ID
          /\ args.yes \/ confirm
          /\ lpc \in {"MoveApp", "done"}
    /\ (lpc = "done" /\ (selErr # NoErr \/ selOrg = NoOrg)) => moveCalls = <<>>
    /\ err \in {InterruptErr, ErrPrompt} => moveCalls = <<>>
    /\ (lpc = "done" /\ ~args.yes /\ ~confirm) => moveCalls = <<>>

\* without --yes, the user chose the second of three organizations and
\* confirmed; MoveApp was called once, with that organization, and succeeded
C23_Witness ==
  /\ cmd = "move" /\ lpc = "done" /\ err = NoErr
  /\ ~args.yes /\ confirm
  /\ Len(fetched) = 3 /\ selIndex = 2
  /\ moveCalls = <<selOrg.ID>>

\* C24: runDomainsRegister calls CreateAndRegisterDomain at most once, and
\* only with zero or two arguments, after an organization was resolved,
\* CheckDomain succeeded and reported registration as supported and as
\* available, and the user confirmed the price. With another argument
\* count, after an error of the organization lookup or of the check, for an
\* unsupported or unavailable domain, or when the user declines, it has not
\* been called.
C24_RegisterAtMostOnce ==
  cmd = "domains register" =>
    /\ Len(registerCalls) <= 1
    /\ registerCalls # <<>> =>
          /\ args.count \in {0, 2}
          /\ selOrg # NoOrg /\ registerCalls[1] = selOrg.ID
          /\ checkResult.RegistrationSupported /\ checkResult.RegistrationAvailable
          /\ confirm
          /\ lpc \in {"CreateAndRegisterDomain", "done"}
    /\ args.count \notin {0, 2} => registerCalls = <<>>
    /\ (lpc = "done" /\ selOrg = NoOrg) => registerCalls = <<>>
    /\ (lpc = "done" /\ checkResult = NoCheck) => registerCalls = <<>>
    /\ (lpc = "done" /\ checkDomainSwitch(checkResult) # "go on") => registerCalls = <<>>
    /\ (lpc = "done" /\ ~confirm) => registerCalls = <<>>

\* with no argument, the organization was chosen at the prompt, the domain
\* was available (and transferable), the user confirmed, and the one call
\* of CreateAndRegisterDomain succeeded
C24_Witness ==
  /\ cmd = "domains register" /\ lpc = "done" /\ err = NoErr
  /\ args.count = 0 /\ selCalls = 1 /\ selIndex = 2
  /\ checkResult.RegistrationAvailable /\ checkResult.TransferAvailable
  /\ confirm /\ registerCalls = <<selOrg.ID>>

\* C16: the update-notice step never aborts the chain: whatever the release
\* check gives (newer release, none, failure), promptToUpdate returns nil and
\* the context it was given, and the steps after it run.
C16_UpdateNeverAborts ==
  [][ Current = "promptToUpdate" =>
        /\ updateCheck' \in {"newer", "current", "failed"}
        /\ ctx' = ctx /\ err' = NoErr
        /\ calls' = Append(calls, [p |-> "promptToUpdate", err |-> NoErr])
        /\ stage' = (IF preparers = <<>> THEN "body" ELSE "specific") ]_vars

\* the release check has failed and the body has run
C16_Witness ==
  /\ updateCheck = "failed" /\ Len(calls) = 7 /\ calls[7].err = NoErr
  /\ stage = "done" /\ bodyRuns = 1 /\ ~ctx.nil

\* C17: a command built without a body is never dispatched: no common
\* preparer, no command-specific preparer and no body runs for it, whatever
\* preparers it was given.
C17_NoBodyNoDispatch ==
  (cmd = "new" /\ ~fn) =>
     /\ stage = "idle" /\ calls = <<>> /\ bodyRuns = 0
     /\ ctx = EmptyCtx /\ err = NoErr /\ fetchCalls = 0 /\ selCalls = 0

\* a command without a body that was given two preparers
C17_Witness ==
  /\ cmd = "new" /\ ~fn /\ preparers = <<"RequireSession", "RequireOrg">>
  /\ stage = "idle" /\ calls = <<>>

\* the access token the client of the invocation is built from
ConfiguredToken == loadConfigResult(in).cfg["AccessToken"]

\* C18: RequireOrg checks the session first: without an authenticated client
\* it fails with the no-session error and neither fetches, nor prompts, nor
\* stores an organization; an organization is stored only after the session
\* check passed and the fetch succeeded.
C18_SessionFirst ==
  cmd = "new" =>
    /\ \A i \in 1..Len(calls) :
          (calls[i].p = "RequireOrg" /\ ConfiguredToken = "") =>
             /\ calls[i].err = ErrNoAuthToken /\ i = Len(calls)
             /\ fetchCalls = 0 /\ selCalls = 0 /\ ctx = NilCtx /\ stage = "done"
    /\ fetchCalls > 0 => ConfiguredToken # ""
    /\ selCalls > 0 => fetchCalls = 1 /\ rpc # "fetching"
    /\ (~ctx.nil /\ "Org" \in ctx.has) =>
          /\ ConfiguredToken # "" /\ fetchCalls = 1 /\ rpc = "idle"
          /\ \E i \in 1..Len(calls) : calls[i] = [p |-> "RequireOrg", err |-> NoErr]
          /\ \E k \in 1..Len(fetched) : ctx.org = fetched[k]

\* RequireOrg has failed for an unauthenticated client
C18_Witness ==
  /\ cmd = "new" /\ preparers = <<"RequireOrg">> /\ ConfiguredToken = ""
  /\ Len(calls) = 8 /\ calls[8] = [p |-> "RequireOrg", err |-> ErrNoAuthToken]
  /\ fetchCalls = 0 /\ stage = "done"

\* C19: on the interactive path the selector gets one label per
\* organization, in sorted order, of the form "<name> (<slug>)"; when it
\* answers index i without error the organization stored in the context is
\* the i-th of the sorted list.
C19_SelectedIsIndexed ==
  (cmd = "new" /\ selCalls > 0) =>
    /\ Len(selOptions) = Len(orgs)
    /\ \A k \in 1..Len(orgs) :
          selOptions[k] = NameOf[orgs[k].ID] \o " (" \o SlugOf[orgs[k].ID] \o ")"
    /\ PersonalFirst(orgs) /\ SameOrgs(orgs, fetched)
    /\ selIndex > 0 =>
          /\ selIndex \in 1..Len(orgs)
          /\ ~ctx.nil /\ "Org" \in ctx.has /\ ctx.org = orgs[selIndex]
          /\ \E i \in 1..Len(calls) : calls[i] = [p |-> "RequireOrg", err |-> NoErr]

\* the selector has answered with the second of three labels
C19_Witness ==
  /\ cmd = "new" /\ selCalls = 1 /\ selIndex = 2 /\ Len(orgs) = 3
  /\ selOptions[2] = "Org 1 (o1)" /\ ctx.org.Slug = "o1"
  /\ fetched[1].Type = SHARED /\ orgs[1].Type = PERSONAL

\* the fact f has the same value in contexts c and d
SameFact(c, d, f) ==
  CASE f = "WorkingDirectory" -> c.wd = d.wd
    [] f = "UserHomeDirectory" -> c.home = d.home
    [] f = "ConfigDirectory" -> c.configDir = d.configDir
    [] f = "ConfigFile" -> c.configFile = d.configFile
    [] f = "Config" -> c.cfg = d.cfg
    [] f = "Client" -> c.token = d.token
    [] f = "Org" -> c.org = d.org

\* the fact a preparer adds to the context
OwnFacts(p) ==
  CASE p = "determineWorkingDir" -> {"WorkingDirectory"}
    [] p = "determineUserHomeDir" -> {"UserHomeDirectory"}
    [] p = "determineConfigDir" -> {"ConfigDirectory"}
    [] p = "determineConfigFile" -> {"ConfigFile"}
    [] p = "loadConfig" -> {"Config"}
    [] p = "initClient" -> {"Client"}
    [] p = "RequireOrg" -> {"Org"}
    [] OTHER -> {}

\* C20: the context is additive: a preparer that returns a context returns
\* the one it was given with its own fact added; every fact an earlier step
\* set is still set and has the same value, up to the body.
C20_Additive ==
  [][ (cmd = "new" /\ stage # "idle" /\ ~ctx'.nil) =>
        /\ ~ctx.nil
        /\ ctx.has \subseteq ctx'.has
        /\ \A f \in ctx.has : SameFact(ctx, ctx', f)
        /\ (ctx'.has \ ctx.has) \subseteq OwnFacts(Current)
        /\ ctx' # ctx => (ctx'.has \ ctx.has) = OwnFacts(Current) ]_vars

\* every fact is set and the body is about to read the context
C20_Witness ==
  /\ cmd = "new" /\ stage = "body" /\ ~ctx.nil
  /\ ctx.has = Facts
  /\ ctx.wd = "/work" /\ ctx.home = "/home/u" /\ ctx.configDir = "/home/u/.fly"
  /\ ctx.org.Slug = "o1"

====
